---- MODULE Spec2Model ----
(***************************************************************************)
(* A model of the industrial-safety question-answering service:            *)
(*   qa_app/utils.py       clean_text, chunk_text, load_sources,           *)
(*                         process_documents                               *)
(*   qa_app/embeddings.py  clean_chunk_text, generate_embeddings,          *)
(*                         search_embeddings                               *)
(*   qa_app/reranker.py    HybridReranker                                  *)
(*   qa_app/views.py       ask_api, truncate_answer, initialize_system     *)
(*                                                                         *)
(* A text is the sequence of its whitespace-separated tokens.  The token   *)
(* alphabet holds one representative of every class of token the regular   *)
(* expressions of the code tell apart.                                     *)
(***************************************************************************)
EXTENDS Integers, Sequences, FiniteSets, TLC

VARIABLES
    \* ---- text pipeline (clean_text, chunk_text)
    text,         \* the argument of clean_text / chunk_text
    chunk_size,   \* chunk_text's chunk_size
    overlap,      \* chunk_text's overlap
    cleaned1,     \* clean_text(text)
    cleaned2,     \* clean_text(clean_text(text))
    chunks,       \* chunk_text(text, chunk_size, overlap)
    tpc,          \* which of the calls above have returned
    \* ---- ingestion (load_sources, process_documents, generate_embeddings)
    sources,          \* sources.json: the titles it lists, in order
    pdfs,             \* title -> the PDF found for it and its extracted text
    documents,        \* the Document table, rows in primary-key order
    document_chunks,  \* the DocumentChunk table, rows in primary-key order
    next_doc_id,      \* the next Document primary key
    collection,       \* embeddings.collection is not None
    store,            \* the ChromaDB collection: record id -> record
    last_op,          \* the ingestion operation that ran last
    last_error,       \* the exception the last operation ended with, or "none"
    runs,             \* runs of load_sources (sources.json read) followed by
                      \* process_documents since initialize_system (0, 1, many)
    \* ---- HybridReranker.rerank
    corpus,           \* HybridReranker.corpus: the candidates
    vector_scores,    \* rerank's vector_scores, one per candidate
    rquery,           \* rerank's query
    bm25_raw,         \* what self.bm25.get_scores returns for the query
    ralpha,           \* rerank's alpha
    vector_scores_norm, \* rerank's normalized vector scores
    bm25_scores,      \* rerank's normalized BM25 scores
    reranked,         \* what rerank returned
    raised,           \* the candidate whose vector score is raised, and to what
    reranked2,        \* what rerank returned with that score raised
    rpc,              \* which of the two calls have returned
    \* ---- a query (ask_api, search_embeddings)
    nearest,          \* the records of the store and their distances to the
                      \* query, nearest first: what collection.query draws on
    request,          \* the request ask_api received
    baseline_results, \* what search_embeddings returned to ask_api
    search_error,     \* the exception search_embeddings raised, or "none"
    results,          \* ask_api's results
    response,         \* the response of ask_api
    qpc,              \* whether ask_api has answered
    \* ---- truncate_answer
    answer_text,      \* truncate_answer's text, a sequence of characters
    answer_limit,       \* truncate_answer's max_length
    truncated_answer, \* what truncate_answer returned
    apc               \* whether truncate_answer has returned

textVars == <<text, chunk_size, overlap, cleaned1, cleaned2, chunks, tpc>>
envVars == <<sources, pdfs, collection>>
ingestVars == <<sources, pdfs, documents, document_chunks, next_doc_id,
                collection, store, last_op, last_error, runs>>

rerankVars == <<corpus, vector_scores, rquery, bm25_raw, ralpha, vector_scores_norm,
                bm25_scores, reranked, raised, reranked2, rpc>>

queryVars == <<nearest, request, baseline_results, search_error, results, response,
               qpc>>

truncateVars == <<answer_text, answer_limit, truncated_answer, apc>>

vars == <<textVars, ingestVars, rerankVars, queryVars, truncateVars>>

(***************************************************************************)
(* Helpers                                                                 *)
(***************************************************************************)
Max(a, b) == IF a >= b THEN a ELSE b
Min(a, b) == IF a <= b THEN a ELSE b

SeqsUpTo(S, n) == UNION {[1..m -> S] : m \in 0..n}

\* the text s with the tokens at the positions in drop replaced by the empty
\* string: between its neighbours only white space is left
Keep(s, drop) ==
    LET NonEmpty(t) == t # ""
    IN  IF drop = {} THEN s
        ELSE SelectSeq([i \in 1..Len(s) |-> IF i \in drop THEN "" ELSE s[i]], NonEmpty)

(***************************************************************************)
(* utils.py: clean_text                                                    *)
(***************************************************************************)
Tokens == {"Page", "5", "of", "http://x", "a@b", "w", "w.", "..", "--"}

IsNum(t)   == t = "5"                    \* \d+ between word boundaries
IsUrl(t)   == t = "http://x"             \* http\S+
IsEmail(t) == t = "a@b"                  \* \S+@\S+
EndsSentence(t) == t \in {"w.", ".", ".."}   \* last character in [.!?]

\* re.sub(r'\bPage\s+\d+\b', '', text): the matches cannot overlap
SubPage(s) ==
    LET m == {i \in 1..(Len(s) - 1) : s[i] = "Page" /\ IsNum(s[i + 1])}
    IN  Keep(s, m \cup {i + 1 : i \in m})

\* re.sub(r'\b\d+\s+of\s+\d+\b', '', text): leftmost match first, the scan
\* resumes after the match, so a candidate overlapping a taken match is lost
SubNOfM(s) ==
    LET cand(i) == /\ i >= 1 /\ i + 2 <= Len(s)
                   /\ IsNum(s[i]) /\ s[i + 1] = "of" /\ IsNum(s[i + 2])
        taken[i \in 1..Len(s)] ==
            cand(i) /\ (i <= 2 \/ ~taken[i - 2])
        m == {i \in 1..Len(s) : taken[i]}
    IN  Keep(s, m \cup {i + 1 : i \in m} \cup {i + 2 : i \in m})

\* re.sub(r'http\S+', '', text)
SubUrl(s) == Keep(s, {i \in 1..Len(s) : IsUrl(s[i])})

\* re.sub(r'\S+@\S+', '', text)
SubEmail(s) == Keep(s, {i \in 1..Len(s) : IsEmail(s[i])})

\* re.sub(r'\.{2,}', '.', text)
SubDots(s) == [i \in 1..Len(s) |-> IF s[i] = ".." THEN "." ELSE s[i]]

\* re.sub(r'-{2,}', '-', text)
SubHyphens(s) == [i \in 1..Len(s) |-> IF s[i] = "--" THEN "-" ELSE s[i]]

\* re.sub(r'\s+', ' ', text).strip(): what a removed token leaves behind is
\* white space only, so the tokens that remain are the text
CollapseSpace(s) == s

clean_text(s) ==
    IF s = <<>> THEN <<>>
    ELSE CollapseSpace(SubHyphens(SubDots(SubEmail(SubUrl(SubNOfM(SubPage(s)))))))

(***************************************************************************)
(* utils.py: chunk_text                                                    *)
(***************************************************************************)
MinWords == 20
DefaultChunkSize == 300
DefaultOverlap == 50

\* re.split(r'(?<=[.!?])\s+', text)
SplitSentences(s) ==
    LET ends == {i \in 1..Len(s) : EndsSentence(s[i]) /\ i < Len(s)} \cup {Len(s)}
        Rank(i) == Cardinality({j \in ends : j <= i})
        EndOf(r) == CHOOSE i \in ends : Rank(i) = r
        StartOf(r) == IF r = 1 THEN 1 ELSE EndOf(r - 1) + 1
    IN  [r \in 1..Cardinality(ends) |-> SubSeq(s, StartOf(r), EndOf(r))]

\* ' '.join(current_chunk)
RECURSIVE Join(_)
Join(ss) == IF ss = <<>> THEN <<>> ELSE Join(SubSeq(ss, 1, Len(ss) - 1)) \o ss[Len(ss)]

\* the for loop of chunk_text from sentence i on, then the last chunk
RECURSIVE ChunkLoop(_, _, _, _, _, _, _)
ChunkLoop(sentences, i, size, ovl, acc, current_chunk, current_length) ==
    IF i > Len(sentences)
    THEN IF current_chunk # <<>> THEN Append(acc, Join(current_chunk)) ELSE acc
    ELSE LET sentence_length == Len(sentences[i])
             close == current_length + sentence_length > size /\ current_chunk # <<>>
             overlap_start == Max(0, Len(current_chunk) - ovl)
             carried == SubSeq(current_chunk, overlap_start + 1, Len(current_chunk))
         IN  IF close
             THEN ChunkLoop(sentences, i + 1, size, ovl,
                            Append(acc, Join(current_chunk)),
                            Append(carried, sentences[i]),
                            Len(Join(carried)) + sentence_length)
             ELSE ChunkLoop(sentences, i + 1, size, ovl, acc,
                            Append(current_chunk, sentences[i]),
                            current_length + sentence_length)

chunk_text(t, size, ovl) ==
    LET c == clean_text(t)
    IN  IF c = <<>> \/ Len(c) < MinWords THEN <<>>
        ELSE ChunkLoop(SplitSentences(c), 1, size, ovl, <<>>, <<>>, 0)

(***************************************************************************)
(* Inputs of the text pipeline                                             *)
(***************************************************************************)
MaxTokens == 3        \* longest text of arbitrary tokens
MaxSents == 4         \* most sentences of a generated document
SmallChunk == 12      \* a chunk_size small enough for short documents
SentLens == {6, 9, 14}

\* a sentence of n words, the last one carrying the full stop
Sentence(n) == [i \in 1..n |-> IF i = n THEN "w." ELSE "w"]

\* the text of the sentences of the given lengths
Doc(lens) == Join([i \in 1..Len(lens) |-> Sentence(lens[i])])

\* 25 sentences of 15 words each
ScenarioText == Doc([i \in 1..25 |-> 15])

ShortTexts == SeqsUpTo(Tokens, MaxTokens)
Documents == {Doc(l) : l \in SeqsUpTo(SentLens, MaxSents)} \cup {ScenarioText}

\* the ingestion side at rest: nothing loaded, nothing stored
IngestIdle ==
    /\ sources = <<>>
    /\ pdfs = <<>>
    /\ documents = <<>>
    /\ document_chunks = <<>>
    /\ next_doc_id = 1
    /\ collection = FALSE
    /\ store = {}
    /\ last_op = "none"
    /\ last_error = "none"
    /\ runs = 0

\* the reranker at rest
RerankIdle ==
    /\ corpus = <<>>
    /\ vector_scores = <<>>
    /\ rquery = <<>>
    /\ bm25_raw = <<>>
    /\ ralpha = <<0, 1>>
    /\ vector_scores_norm = <<>>
    /\ bm25_scores = <<>>
    /\ reranked = <<>>
    /\ raised = <<>>
    /\ reranked2 = <<>>
    /\ rpc = "idle"

\* truncate_answer not called
TruncateIdle ==
    /\ answer_text = <<>>
    /\ answer_limit = 0
    /\ truncated_answer = <<>>
    /\ apc = "idle"

\* no request received
NoRequest == [method |-> "none", q |-> <<>>, k |-> 0, mode |-> "none"]
NoResponse == [status |-> 0, error |-> "none", answer |-> <<>>, contexts |-> <<>>,
               reranker_used |-> FALSE, query |-> <<>>]

QueryIdle ==
    /\ nearest = <<>>
    /\ request = NoRequest
    /\ baseline_results = <<>>
    /\ search_error = "none"
    /\ results = <<>>
    /\ response = NoResponse
    /\ qpc = "idle"

TextInit ==
    /\ text \in ShortTexts \cup Documents
    /\ chunk_size \in {DefaultChunkSize, SmallChunk}
    /\ overlap \in {DefaultOverlap, 1}
    /\ cleaned1 = <<>>
    /\ cleaned2 = <<>>
    /\ chunks = <<>>
    /\ tpc = "start"
    /\ IngestIdle
    /\ RerankIdle
    /\ QueryIdle
    /\ TruncateIdle

\* cleaned1 = clean_text(text)
Clean ==
    /\ tpc = "start"
    /\ cleaned1' = clean_text(text)
    /\ tpc' = "cleaned"
    /\ UNCHANGED <<text, chunk_size, overlap, cleaned2, chunks>>
    /\ UNCHANGED <<ingestVars, rerankVars, queryVars, truncateVars>>

\* cleaned2 = clean_text(cleaned1)
CleanAgain ==
    /\ tpc = "cleaned"
    /\ cleaned2' = clean_text(cleaned1)
    /\ tpc' = "recleaned"
    /\ UNCHANGED <<text, chunk_size, overlap, cleaned1, chunks>>
    /\ UNCHANGED <<ingestVars, rerankVars, queryVars, truncateVars>>

\* chunks = chunk_text(text, chunk_size, overlap)
Chunk ==
    /\ tpc = "recleaned"
    /\ chunks' = chunk_text(text, chunk_size, overlap)
    /\ tpc' = "chunked"
    /\ UNCHANGED <<text, chunk_size, overlap, cleaned1, cleaned2>>
    /\ UNCHANGED <<ingestVars, rerankVars, queryVars, truncateVars>>

TextNext == Clean \/ CleanAgain \/ Chunk

SpecText == TextInit /\ [][TextNext]_vars

(***************************************************************************)
(* Claims about the text pipeline                                          *)
(***************************************************************************)
Chunked == tpc = "chunked"

\* whether chunk c is one single sentence
SingleSentence(c) == Len(SplitSentences(c)) = 1

\* whether chunk d begins with the last k words of chunk c, k words that are
\* whole sentences of c and not the whole of c
BeginsWithTailOf(d, c) ==
    \E k \in 1..(Len(c) - 1) :
        /\ k <= Len(d)
        /\ EndsSentence(c[Len(c) - k])
        /\ SubSeq(d, 1, k) = SubSeq(c, Len(c) - k + 1, Len(c))

IsScenario == text = ScenarioText /\ chunk_size = DefaultChunkSize /\ overlap = DefaultOverlap

\* C2: chunk_text with chunk_size 300 and overlap 50 on 25 sentences of 15
\* words returns exactly 2 chunks, the second beginning with the last few
\* sentences of the first.
C2_ScenarioTwoChunks ==
    (Chunked /\ IsScenario) =>
        /\ Len(chunks) = 2
        /\ BeginsWithTailOf(chunks[2], chunks[1])

\* C3: every chunk chunk_text returns has at most chunk_size words, unless it
\* is one single sentence that is itself longer than chunk_size.
C3_ChunksBounded ==
    Chunked =>
        \A i \in 1..Len(chunks) :
            Len(chunks[i]) <= chunk_size \/ SingleSentence(chunks[i])

\* C4: clean_text is idempotent: clean_text(clean_text(x)) = clean_text(x).
C4_CleanIdempotent ==
    tpc \in {"recleaned", "chunked"} => cleaned2 = cleaned1

(***************************************************************************)
(* utils.py: load_sources                                                  *)
(***************************************************************************)
\* the for loop of load_sources from source i on: get_or_create by title,
\* and for a row that existed the url is rewritten and processed reset
RECURSIVE LoadLoop(_, _, _, _)
LoadLoop(srcs, i, docs, nid) ==
    IF i > Len(srcs) THEN [documents |-> docs, next_doc_id |-> nid]
    ELSE LET found == {j \in 1..Len(docs) : docs[j].title = srcs[i].title}
         IN  IF found = {}
             THEN LoadLoop(srcs, i + 1,
                           Append(docs, [id |-> nid, title |-> srcs[i].title,
                                         url |-> srcs[i].url, processed |-> FALSE]),
                           nid + 1)
             ELSE LET j == CHOOSE j \in found : TRUE
                  IN  LoadLoop(srcs, i + 1,
                               [docs EXCEPT ![j].url = srcs[i].url,
                                            ![j].processed = FALSE],
                               nid)

\* load_sources(): an unreadable sources.json is caught and changes nothing
load_sources(docs, nid, readable) ==
    IF readable THEN LoadLoop(sources, 1, docs, nid)
    ELSE [documents |-> docs, next_doc_id |-> nid]

(***************************************************************************)
(* utils.py: process_documents                                             *)
(***************************************************************************)
MinDocWords == 50
MinChunkWords == 10

\* the loop over enumerate(chunks) from index i on (0-based): a chunk under
\* 10 words is skipped, DocumentChunk.objects.create raises IntegrityError
\* when (document, chunk_index) is taken (unique_together), and the rows
\* created before it stay
RECURSIVE CreateChunks(_, _, _, _)
CreateChunks(doc_id, chs, i, rows) ==
    IF i >= Len(chs) THEN [rows |-> rows, error |-> "none"]
    ELSE IF Len(chs[i + 1]) < MinChunkWords THEN CreateChunks(doc_id, chs, i + 1, rows)
    ELSE IF \E r \in 1..Len(rows) :
                rows[r].document = doc_id /\ rows[r].chunk_index = i
    THEN [rows |-> rows, error |-> "IntegrityError"]
    ELSE CreateChunks(doc_id, chs, i + 1,
                      Append(rows, [document |-> doc_id, chunk_index |-> i,
                                    chunk_text |-> chs[i + 1]]))

\* extract_text_from_pdf
extract_text_from_pdf(pdf) == IF pdf.found THEN pdf.text ELSE <<>>

\* the for loop of process_documents from row j of Document on
RECURSIVE ProcessLoop(_, _, _)
ProcessLoop(j, docs, rows) ==
    IF j > Len(docs)
    THEN [documents |-> docs, document_chunks |-> rows, error |-> "none"]
    ELSE LET doc == docs[j]
             pdf == pdfs[doc.title]
             t == extract_text_from_pdf(pdf)
             made == CreateChunks(doc.id, chunk_text(t, DefaultChunkSize, DefaultOverlap),
                                  0, rows)
         IN  IF doc.processed \/ ~pdf.found \/ t = <<>> \/ Len(t) < MinDocWords
             THEN ProcessLoop(j + 1, docs, rows)
             ELSE IF made.error # "none"
             THEN [documents |-> docs, document_chunks |-> made.rows,
                   error |-> made.error]
             ELSE ProcessLoop(j + 1, [docs EXCEPT ![j].processed = TRUE], made.rows)

process_documents(docs, rows) == ProcessLoop(1, docs, rows)

(***************************************************************************)
(* embeddings.py: clean_chunk_text, generate_embeddings                    *)
(***************************************************************************)
MinEmbedWords == 5
batch_size == 50

clean_chunk_text(s) == IF s = <<>> THEN <<>> ELSE SubNOfM(SubPage(s))

DocOf(docs, id) == docs[CHOOSE j \in 1..Len(docs) : docs[j].id = id]

\* whether generate_embeddings embeds the chunk
Embeddable(row) == Len(clean_chunk_text(row.chunk_text)) >= MinEmbedWords

\* what generate_embeddings prepares for ChromaDB, in the order of the table
Entries(docs, rows) ==
    LET kept == SelectSeq(rows, Embeddable)
    IN  [r \in 1..Len(kept) |->
            [id |-> <<kept[r].document, kept[r].chunk_index>>,
             document |-> clean_chunk_text(kept[r].chunk_text),
             metadata |-> [document_id |-> kept[r].document,
                           chunk_index |-> kept[r].chunk_index,
                           document_title |-> DocOf(docs, kept[r].document).title,
                           document_url |-> DocOf(docs, kept[r].document).url,
                           original_text |-> kept[r].chunk_text]]]

NumBatches(entries) == (Len(entries) + batch_size - 1) \div batch_size

Batch(entries, b) ==
    SubSeq(entries, (b - 1) * batch_size + 1, Min(b * batch_size, Len(entries)))

\* collection.add of one batch that succeeds: an id the collection holds
\* already keeps its record
AddBatch(st, batch) ==
    st \cup {batch[i] : i \in {i \in 1..Len(batch) :
                                 \A old \in st : old.id # batch[i].id}}

\* the loop over the batches from batch b on; a failing collection.add is
\* caught and leaves its batch out
RECURSIVE AddBatches(_, _, _, _)
AddBatches(st, entries, b, failing) ==
    IF b > NumBatches(entries) THEN st
    ELSE AddBatches(IF b \in failing THEN st ELSE AddBatch(st, Batch(entries, b)),
                    entries, b + 1, failing)

\* collection.delete(where={}): any exception is swallowed
ClearCollection(st, delete_ok) == IF delete_ok THEN {} ELSE st

\* generate_embeddings() once the loop over the chunks has prepared entries;
\* model.encode, called in that loop, is outside any try
generate_embeddings(entries, st, encode_ok, delete_ok, failing) ==
    IF ~collection THEN [store |-> st, error |-> "none"]
    ELSE IF entries # <<>> /\ ~encode_ok
    THEN [store |-> st, error |-> "EncodeError"]
    ELSE [store |-> AddBatches(ClearCollection(st, delete_ok), entries, 1, failing),
          error |-> "none"]

(***************************************************************************)
(* Ingestion: the environment and the operations                           *)
(***************************************************************************)
MaxDocId == 2         \* initialize_system is not run past this primary key

Titles == {"A", "B"}

\* a page full of "Page <url> N": clean_text leaves "Page N" behind
NoisyText == Join([i \in 1..30 |-> <<"Page", "http://x", "5">>])

PdfTexts == { <<>>,                  \* a PDF without extractable text
              Doc(<<30>>),           \* under 50 words
              Doc(<<60>>),           \* one chunk
              Doc(<<5, 300>>),       \* a short first chunk, then a long one
              NoisyText }

Pdfs == {[found |-> FALSE, text |-> <<>>]} \cup
        {[found |-> TRUE, text |-> t] : t \in PdfTexts}

SourceLists == { <<[title |-> "A", url |-> "u"]>>,
                 <<[title |-> "A", url |-> "u"], [title |-> "B", url |-> "u"]>> }

TextIdle ==
    /\ text = <<>>
    /\ chunk_size = DefaultChunkSize
    /\ overlap = DefaultOverlap
    /\ cleaned1 = <<>>
    /\ cleaned2 = <<>>
    /\ chunks = <<>>
    /\ tpc = "idle"

IngestInit ==
    /\ sources \in SourceLists
    /\ pdfs \in {p \in [Titles -> Pdfs] : p["B"].text \in {<<>>, Doc(<<60>>)}}
    /\ documents = <<>>
    /\ document_chunks = <<>>
    /\ next_doc_id = 1
    /\ collection \in BOOLEAN
    /\ store = {}
    /\ last_op = "none"
    /\ last_error = "none"
    /\ runs = 0
    /\ TextIdle
    /\ RerankIdle
    /\ QueryIdle
    /\ TruncateIdle

LoadSources ==
    /\ \E readable \in BOOLEAN :
        LET r == load_sources(documents, next_doc_id, readable)
        IN  /\ documents' = r.documents
            /\ next_doc_id' = r.next_doc_id
            /\ last_op' = IF readable THEN "load_sources" ELSE "load_sources_failed"
    /\ last_error' = "none"
    /\ UNCHANGED <<envVars, document_chunks, store, runs>>
    /\ UNCHANGED <<textVars, rerankVars, queryVars, truncateVars>>

ProcessDocuments ==
    /\ LET r == process_documents(documents, document_chunks)
       IN  /\ documents' = r.documents
           /\ document_chunks' = r.document_chunks
           /\ last_error' = r.error
    /\ runs' = IF last_op = "load_sources" THEN Min(runs + 1, 2) ELSE runs
    /\ last_op' = "process_documents"
    /\ UNCHANGED <<envVars, next_doc_id, store>>
    /\ UNCHANGED <<textVars, rerankVars, queryVars, truncateVars>>

GenerateEmbeddings ==
    /\ LET entries == Entries(documents, document_chunks)
       IN  \E encode_ok \in BOOLEAN, delete_ok \in BOOLEAN,
              failing \in SUBSET (1..NumBatches(entries)) :
            LET r == generate_embeddings(entries, store, encode_ok, delete_ok, failing)
            IN  /\ store' = r.store
                /\ last_error' = r.error
    /\ last_op' = "generate_embeddings"
    /\ UNCHANGED <<envVars, documents, document_chunks, next_doc_id, runs>>
    /\ UNCHANGED <<textVars, rerankVars, queryVars, truncateVars>>

\* views.initialize_system (POST): every exception is caught by the view
InitializeSystem ==
    /\ next_doc_id <= MaxDocId
    /\ \E readable \in BOOLEAN :
        LET loaded == load_sources(<<>>, next_doc_id, readable)
            no_pdfs == \A t \in Titles : ~pdfs[t].found
            done == process_documents(loaded.documents, <<>>)
            entries == Entries(done.documents, done.document_chunks)
        IN  /\ next_doc_id' = loaded.next_doc_id
            /\ IF no_pdfs
               THEN /\ documents' = loaded.documents
                    /\ document_chunks' = <<>>
                    /\ store' = store
                    /\ last_error' = "none"
               ELSE /\ documents' = done.documents
                    /\ document_chunks' = done.document_chunks
                    /\ IF done.error # "none" \/ done.document_chunks = <<>>
                       THEN store' = store /\ last_error' = done.error
                       ELSE \E encode_ok \in BOOLEAN, delete_ok \in BOOLEAN,
                               failing \in SUBSET (1..NumBatches(entries)) :
                              LET emb == generate_embeddings(entries, store, encode_ok,
                                                             delete_ok, failing)
                              IN  store' = emb.store /\ last_error' = emb.error
    /\ runs' = 0
    /\ last_op' = "initialize_system"
    /\ UNCHANGED envVars
    /\ UNCHANGED <<textVars, rerankVars, queryVars, truncateVars>>

IngestNext == LoadSources \/ ProcessDocuments \/ GenerateEmbeddings \/ InitializeSystem

SpecIngest == IngestInit /\ [][IngestNext]_vars

(***************************************************************************)
(* Claims about ingestion                                                  *)
(***************************************************************************)
ChunkKeys(rows) == {<<rows[r].document, rows[r].chunk_index>> : r \in 1..Len(rows)}

\* C1: reprocessing is idempotent: load_sources then process_documents, run
\* again with no reset since an earlier run, ends without error and leaves
\* every document with the same (document, chunk_index) chunks, none
\* duplicated and none rejected.
C1_ReprocessIdempotent ==
    [][(last_op = "load_sources" /\ runs >= 1 /\ last_op' = "process_documents")
        => /\ last_error' = "none"
           /\ ChunkKeys(document_chunks') = ChunkKeys(document_chunks)
           /\ Len(document_chunks') = Len(document_chunks)]_vars

\* process_documents skips the document: no PDF, no text, or under 50 words
IsSkipped(doc) ==
    \/ ~pdfs[doc.title].found
    \/ Len(pdfs[doc.title].text) < MinDocWords

\* the (chunk_index, chunk_text) rows of a document
ChunksOf(rows, doc_id) ==
    {<<rows[r].chunk_index, rows[r].chunk_text>> :
        r \in {r \in 1..Len(rows) : rows[r].document = doc_id}}

\* the rows chunking the document's text gives: every chunk of 10 words or
\* more, at its place in chunk_text's list
ExpectedChunks(doc) ==
    LET chs == chunk_text(pdfs[doc.title].text, DefaultChunkSize, DefaultOverlap)
    IN  {<<i - 1, chs[i]>> : i \in {i \in 1..Len(chs) : Len(chs[i]) >= MinChunkWords}}

\* the batch of unprocessed documents holds one that is skipped
BatchHasSkipped ==
    \E j \in 1..Len(documents) : ~documents[j].processed /\ IsSkipped(documents[j])

\* every unprocessed document is skipped and left alone, or chunked and marked
ProcessedOrSkipped ==
    /\ last_error' = "none"
    /\ Len(documents') = Len(documents)
    /\ \A j \in 1..Len(documents) :
         ~documents[j].processed =>
            IF IsSkipped(documents[j])
            THEN /\ ~documents'[j].processed
                 /\ ChunksOf(document_chunks', documents[j].id)
                        = ChunksOf(document_chunks, documents[j].id)
            ELSE /\ documents'[j].processed
                 /\ ChunksOf(document_chunks', documents[j].id)
                        = ExpectedChunks(documents[j])

\* C14: in a process_documents batch a document without a PDF, without
\* extracted text or with fewer than 50 words is skipped (it stays
\* unprocessed and gets no chunks), the batch does not abort, and every other
\* unprocessed document of the batch is chunked and marked processed.
C14_SkippedNotFatal ==
    [][(BatchHasSkipped /\ last_op' = "process_documents") => ProcessedOrSkipped]_vars

StoreIds == {r.id : r \in store}

EligibleIds ==
    {<<document_chunks[r].document, document_chunks[r].chunk_index>> :
        r \in {r \in 1..Len(document_chunks) : Embeddable(document_chunks[r])}}

\* C8: after generate_embeddings returns the store holds exactly one record
\* for each chunk of the relational store whose cleaned text has at least 5
\* words, and no other record.
C8_StoreMatchesChunks ==
    (last_op = "generate_embeddings" /\ last_error = "none" /\ collection)
        => /\ StoreIds = EligibleIds
           /\ Cardinality(store) = Cardinality(EligibleIds)

(***************************************************************************)
(* Exact arithmetic: a score is a fraction <<numerator, denominator>> in   *)
(* lowest terms, the denominator positive.                                 *)
(***************************************************************************)
RECURSIVE GCD(_, _)
GCD(a, b) == IF b = 0 THEN a ELSE GCD(b, a % b)

Abs(x) == IF x < 0 THEN -x ELSE x

Q(n, d) == LET g == GCD(Abs(n), d) IN <<n \div g, d \div g>>

QAdd(a, b) == Q(a[1] * b[2] + b[1] * a[2], a[2] * b[2])
QSub(a, b) == Q(a[1] * b[2] - b[1] * a[2], a[2] * b[2])
QMul(a, b) == Q(a[1] * b[1], a[2] * b[2])
QDiv(a, b) == Q(a[1] * b[2], a[2] * b[1])       \* b > 0
QLeq(a, b) == a[1] * b[2] <= b[1] * a[2]
QLt(a, b)  == a[1] * b[2] < b[1] * a[2]
QMin(a, b) == IF QLeq(a, b) THEN a ELSE b

Zero == <<0, 1>>
One == <<1, 1>>

\* np.max, np.min of a non-empty list
NpMax(xs) == xs[CHOOSE i \in 1..Len(xs) : \A j \in 1..Len(xs) : QLeq(xs[j], xs[i])]
NpMin(xs) == xs[CHOOSE i \in 1..Len(xs) : \A j \in 1..Len(xs) : QLeq(xs[i], xs[j])]

(***************************************************************************)
(* reranker.py: HybridReranker                                             *)
(***************************************************************************)
\* str.lower() of a word
Lower(t) == CASE t = "Guard" -> "guard"
              [] t = "Press" -> "press"
              [] OTHER -> t

\* ENGLISH_STOP_WORDS, and len(token) > 2
IsStopWord(t) == t \in {"the", "of", "and"}
IsShortWord(t) == t \in {"of", "w", "5", "a", "b", "x"}

\* re.findall(r'\b\w+\b', text.lower()) of one whitespace-separated token
WordRuns(t) == CASE t = "w." -> <<"w">>
                 [] t = "http://x" -> <<"http", "x">>
                 [] t = "a@b" -> <<"a", "b">>
                 [] t \in {"..", "--", ".", "-"} -> <<>>
                 [] OTHER -> <<Lower(t)>>

RECURSIVE FindAll(_)
FindAll(s) == IF s = <<>> THEN <<>> ELSE WordRuns(Head(s)) \o FindAll(Tail(s))

\* HybridReranker._tokenize
Tokenize(s) ==
    LET Kept(t) == ~IsStopWord(t) /\ ~IsShortWord(t)
    IN  SelectSeq(FindAll(s), Kept)

ToSet(s) == {s[i] : i \in 1..Len(s)}

\* HybridReranker._calculate_title_match
CalculateTitleMatch(query, document_title) ==
    LET query_words == ToSet(Tokenize(query))
        title_words == ToSet(Tokenize(document_title))
    IN  IF query_words = {} THEN Zero
        ELSE Q(Cardinality(query_words \cap title_words), Cardinality(query_words))

\* the two normalisations of rerank: min-max, or 0.5 throughout without variance
Half == <<1, 2>>

MinMaxNormalizeFlipped(scores) ==
    IF Len(scores) > 0 /\ QLt(NpMin(scores), NpMax(scores))
    THEN [i \in 1..Len(scores) |->
            QDiv(QSub(NpMax(scores), scores[i]), QSub(NpMax(scores), NpMin(scores)))]
    ELSE [i \in 1..Len(scores) |-> Half]

\* the scores shifted to the minimum but not divided by the range
MinMaxNormalizeUnscaled(scores) ==
    IF Len(scores) > 0 /\ QLt(NpMin(scores), NpMax(scores))
    THEN [i \in 1..Len(scores) |-> QSub(scores[i], NpMin(scores))]
    ELSE [i \in 1..Len(scores) |-> Half]

MinMaxNormalize(scores) ==
    IF Len(scores) > 0 /\ QLt(NpMin(scores), NpMax(scores))
    THEN [i \in 1..Len(scores) |->
            QDiv(QSub(scores[i], NpMin(scores)), QSub(NpMax(scores), NpMin(scores)))]
    ELSE [i \in 1..Len(scores) |-> Half]

\* min(1.0, len(doc['cleaned_text'].split()) / 100)
LengthScore(doc) == QMin(One, Q(Len(doc.cleaned_text), 100))

DefaultAlpha == <<3, 5>>
Bm25Weight == <<3, 10>>
TitleWeight == <<1, 20>>
LengthWeight == <<1, 20>>

\* combined_scores of rerank
CombinedScores(docs, query, vscores, bm25, alpha) ==
    LET vn == MinMaxNormalize(vscores)
        bn == MinMaxNormalize(bm25)
    IN  [i \in 1..Len(docs) |->
            QAdd(QAdd(QMul(alpha, vn[i]), QMul(Bm25Weight, bn[i])),
                 QAdd(QMul(TitleWeight, CalculateTitleMatch(query, docs[i].document_title)),
                      QMul(LengthWeight, LengthScore(docs[i]))))]

IndexOrders(n) == Permutations(1..n)

\* np.argsort(combined_scores): the default sort is not stable, so equal
\* scores may come out in any order
ArgSorts(c) ==
    {p \in IndexOrders(Len(c)) :
        \A i \in 1..(Len(c) - 1) : QLeq(c[p[i]], c[p[i + 1]])}

\* [::-1]
Reversed(p) == [i \in 1..Len(p) |-> p[Len(p) + 1 - i]]

\* the result list rerank builds from sorted_indices; idx is the place of the
\* candidate in the corpus (not a key of the code's dict)
RerankResults(docs, vscores, bm25n, query, combined, sorted_indices) ==
    [r \in 1..Len(sorted_indices) |->
        LET idx == sorted_indices[r]
        IN  [idx |-> idx,
             chunk_text |-> docs[idx].chunk_text,
             cleaned_text |-> docs[idx].cleaned_text,
             document_title |-> docs[idx].document_title,
             document_url |-> docs[idx].document_url,
             chunk_index |-> docs[idx].chunk_index,
             score |-> combined[idx],
             vector_score |-> vscores[idx],
             bm25_score |-> bm25n[idx],
             title_score |-> CalculateTitleMatch(query, docs[idx].document_title)]]

\* HybridReranker(docs).rerank(query, vscores, alpha): every list it may return
Rerank(docs, query, vscores, bm25, alpha) ==
    LET combined == CombinedScores(docs, query, vscores, bm25, alpha)
        bm25n == MinMaxNormalize(bm25)
    IN  {RerankResults(docs, vscores, bm25n, query, combined, Reversed(p)) :
            p \in ArgSorts(combined)}

(***************************************************************************)
(* The reranker on its own: inputs and calls                               *)
(***************************************************************************)
MaxCandidates == 3    \* most candidates handed to the reranker

VectorScoreValues == {<<1, 5>>, <<1, 2>>, <<9, 10>>}
Bm25Values == {<<0, 1>>, <<3, 2>>}
Alphas == {DefaultAlpha, <<1, 1>>}
Queries == {<<"the", "of">>, <<"Guard", "ladder", "press">>}

\* what search_embeddings makes of a stored chunk
Candidate(title, chunk, index, vscore) ==
    [chunk_text |-> chunk, cleaned_text |-> clean_chunk_text(chunk),
     document_title |-> title, document_url |-> "u", chunk_index |-> index,
     score |-> vscore]

PressChunk == Candidate(<<"Guard", "Press">>, Doc(<<6>>), 0, Zero)
LadderChunk == Candidate(<<"the", "ladder">>, Doc(<<12>>), 1, Zero)

\* the corpora of n candidates: chunks of one document, or of two in turn
Corpora(n) ==
    {[i \in 1..n |-> PressChunk], [i \in 1..n |-> LadderChunk],
     [i \in 1..n |-> IF i % 2 = 1 THEN PressChunk ELSE LadderChunk]}

RerankInit ==
    /\ \E n \in 1..MaxCandidates :
        /\ corpus \in Corpora(n)
        /\ vector_scores \in [1..n -> VectorScoreValues]
        /\ bm25_raw \in [1..n -> Bm25Values]
    /\ rquery \in Queries
    /\ ralpha \in Alphas
    /\ vector_scores_norm = <<>>
    /\ bm25_scores = <<>>
    /\ reranked = <<>>
    /\ raised = <<>>
    /\ reranked2 = <<>>
    /\ rpc = "start"
    /\ TextIdle
    /\ IngestIdle
    /\ QueryIdle
    /\ TruncateIdle

\* reranked = HybridReranker(corpus).rerank(rquery, vector_scores, ralpha)
CallRerank ==
    /\ rpc = "start"
    /\ reranked' \in Rerank(corpus, rquery, vector_scores, bm25_raw, ralpha)
    /\ vector_scores_norm' = MinMaxNormalize(vector_scores)
    /\ bm25_scores' = MinMaxNormalize(bm25_raw)
    /\ rpc' = "reranked"
    /\ UNCHANGED <<corpus, vector_scores, rquery, bm25_raw, ralpha, raised, reranked2>>
    /\ UNCHANGED <<textVars, ingestVars, queryVars, truncateVars>>

\* the same call with the vector score of one candidate raised
CallRerankRaised ==
    /\ rpc = "reranked"
    /\ \E i \in 1..Len(corpus), v \in VectorScoreValues :
        /\ QLt(vector_scores[i], v)
        /\ raised' = <<i, v>>
        /\ reranked2' \in Rerank(corpus, rquery, [vector_scores EXCEPT ![i] = v],
                                 bm25_raw, ralpha)
    /\ rpc' = "raised"
    /\ UNCHANGED <<corpus, vector_scores, rquery, bm25_raw, ralpha, reranked,
                   vector_scores_norm, bm25_scores>>
    /\ UNCHANGED <<textVars, ingestVars, queryVars, truncateVars>>

RerankNext == CallRerank \/ CallRerankRaised

SpecRerank == RerankInit /\ [][RerankNext]_vars

(***************************************************************************)
(* Claims about the reranker                                               *)
(***************************************************************************)
Indices(ranked) == [r \in 1..Len(ranked) |-> ranked[r].idx]

\* the place of candidate idx in a result list
PlaceOf(ranked, idx) == CHOOSE r \in 1..Len(ranked) : ranked[r].idx = idx

ScoreOf(ranked, idx) == ranked[PlaceOf(ranked, idx)].score

IsPermutation(ranked, n) ==
    /\ Len(ranked) = n
    /\ \A idx \in 1..n : \E r \in 1..n : ranked[r].idx = idx

NonIncreasing(ranked) ==
    \A r \in 1..(Len(ranked) - 1) : QLeq(ranked[r + 1].score, ranked[r].score)

StableOnTies(ranked) ==
    \A r1, r2 \in 1..Len(ranked) :
        (r1 < r2 /\ ranked[r1].score = ranked[r2].score)
            => ranked[r1].idx < ranked[r2].idx

\* C5: rerank returns a permutation of the candidates in order of
\* non-increasing combined score, candidates of equal combined score keeping
\* the order they had in the input.
C5_RerankSortedStable ==
    rpc \in {"reranked", "raised"} =>
        /\ IsPermutation(reranked, Len(corpus))
        /\ NonIncreasing(reranked)
        /\ StableOnTies(reranked)

\* C10: raising the vector score of one candidate, all other inputs of rerank
\* unchanged, never lowers the combined score of that candidate.
C10_FusionMonotone ==
    rpc = "raised" =>
        QLeq(ScoreOf(reranked, raised[1]), ScoreOf(reranked2, raised[1]))

\* a candidate whose vector score was raised from the minimum of the set, and
\* whose combined score rose
C10_Witness ==
    /\ rpc = "raised"
    /\ Len(corpus) >= 2
    /\ vector_scores[raised[1]] = NpMin(vector_scores)
    /\ QLt(ScoreOf(reranked, raised[1]), ScoreOf(reranked2, raised[1]))

\* norm is a min-max normalization of the non-empty list raw
IsMinMaxNormalized(raw, norm) ==
    /\ Len(norm) = Len(raw)
    /\ IF QLt(NpMin(raw), NpMax(raw))
       THEN \A i \in 1..Len(raw) :
                /\ QLeq(Zero, norm[i]) /\ QLeq(norm[i], One)
                /\ raw[i] = NpMin(raw) => norm[i] = Zero
                /\ raw[i] = NpMax(raw) => norm[i] = One
       ELSE \A i \in 1..Len(raw) : norm[i] = Half

\* C11: rerank's min-max normalization, of the vector scores and of the BM25
\* scores alike: when the maximum exceeds the minimum every normalized score
\* is in [0,1] with the minimum at 0 and the maximum at 1; when all scores are
\* equal (a single score included) every normalized score is 0.5.
C11_MinMaxNormalized ==
    rpc \in {"reranked", "raised"} =>
        /\ IsMinMaxNormalized(vector_scores, vector_scores_norm)
        /\ IsMinMaxNormalized(bm25_raw, bm25_scores)

\* vector scores that differ beside BM25 scores that are all equal, and a
\* score strictly between the ends
C11_Witness ==
    /\ rpc = "reranked"
    /\ Len(corpus) = MaxCandidates
    /\ QLt(NpMin(vector_scores), NpMax(vector_scores))
    /\ NpMin(bm25_raw) = NpMax(bm25_raw)
    /\ \E i \in 1..Len(corpus) :
         QLt(Zero, vector_scores_norm[i]) /\ QLt(vector_scores_norm[i], One)

(***************************************************************************)
(* embeddings.py: search_embeddings                                        *)
(***************************************************************************)
\* score = 1 - distance
SimilarityScore(distance) == QSub(One, distance)

\* one entry of formatted_results
FormatResult(n) ==
    [chunk_text |-> n.record.metadata.original_text,
     cleaned_text |-> n.record.document,
     document_title |-> n.record.metadata.document_title,
     document_url |-> n.record.metadata.document_url,
     chunk_index |-> n.record.metadata.chunk_index,
     score |-> SimilarityScore(n.distance)]

\* collection.query(n_results = ...): the n_results nearest records
CollectionQuery(near, n_results) == SubSeq(near, 1, Min(n_results, Len(near)))

\* search_embeddings(query, k).  model.encode is called outside the try
\* block, so its exception leaves the function; the exception of
\* collection.query is caught.  The cleaned query only feeds model.encode.
search_embeddings(near, available, query, k, encode_ok, query_ok) ==
    IF ~available THEN [error |-> "none", results |-> <<>>]
    ELSE IF ~encode_ok THEN [error |-> "EncodeError", results |-> <<>>]
    ELSE IF ~query_ok THEN [error |-> "none", results |-> <<>>]
    ELSE LET found == CollectionQuery(near, k * 2)
         IN  [error |-> "none",
              results |-> [i \in 1..Len(found) |-> FormatResult(found[i])]]

(***************************************************************************)
(* views.py: truncate_answer.  A string is the sequence of its characters. *)
(***************************************************************************)
CharsOf(t) ==
    CASE t = "w" -> <<"w">>
      [] t = "w." -> <<"w", ".">>
      [] t = "5" -> <<"5">>
      [] t = "of" -> <<"o", "f">>
      [] t = ".." -> <<".", ".">>
      [] t = "--" -> <<"-", "-">>
      [] t = "a@b" -> <<"a", "@", "b">>
      [] t = "Page" -> <<"P", "a", "g", "e">>
      [] OTHER -> <<"h", "t", "t", "p", ":", "/", "/", "x">>

\* the characters of a text whose tokens are separated by single spaces
RECURSIVE Chars(_)
Chars(s) ==
    IF Len(s) = 0 THEN <<>>
    ELSE IF Len(s) = 1 THEN CharsOf(s[1])
    ELSE LET h == Len(s) \div 2
         IN  Chars(SubSeq(s, 1, h)) \o <<" ">> \o Chars(SubSeq(s, h + 1, Len(s)))

\* str.rfind: the (0-based) index of the last occurrence of c, or -1
RFind(s, c) ==
    LET hits == {i \in 1..Len(s) : s[i] = c}
    IN  IF hits = {} THEN -1
        ELSE (CHOOSE i \in hits : \A j \in hits : j <= i) - 1

\* the marker appended to the whole text
truncate_answer_uncut(txt, limit) ==
    IF Len(txt) <= limit THEN txt ELSE txt \o <<".", ".", ".">>

truncate_answer(txt, max_length) ==
    IF Len(txt) <= max_length THEN txt
    ELSE LET truncated == SubSeq(txt, 1, max_length)
             last_period == RFind(truncated, ".")
             last_exclamation == RFind(truncated, "!")
             last_question == RFind(truncated, "?")
             sentence_end == Max(Max(last_period, last_exclamation), last_question)
         IN  IF sentence_end > 0
             THEN SubSeq(truncated, 1, sentence_end + 1) \o <<".", ".">>
             ELSE truncated \o <<".", ".", ".">>

(***************************************************************************)
(* views.py: ask_api                                                       *)
(***************************************************************************)
confidence_threshold == <<3, 10>>
MaxAnswerLength == 500
TopResults == 3

\* the k ask_api passes to search_embeddings
SearchK(req) == req.k * 2

\* every result taken for confident
ConfidentAlways(r) == TRUE

Confident(r) == QLeq(confidence_threshold, r.score)

Context(r) ==
    [text |-> r.chunk_text, score |-> r.score,
     source |-> [title |-> r.document_title, url |-> r.document_url,
                 chunk_index |-> r.chunk_index]]

\* " ".join(answer_chunks)
AnswerText(answer_chunks) ==
    Chars(Join([i \in 1..Len(answer_chunks) |-> answer_chunks[i].chunk_text]))

\* the answer is None (<<>>) or a string (<<string>>)
ResponseData(query, res, reranker_used) ==
    LET top_results == SelectSeq(res, Confident)
        answer_chunks == SubSeq(top_results, 1, Min(TopResults, Len(top_results)))
    IN  [status |-> 200, error |-> "none",
         answer |-> IF top_results # <<>>
                    THEN <<truncate_answer(AnswerText(answer_chunks), MaxAnswerLength)>>
                    ELSE <<>>,
         contexts |-> IF top_results # <<>>
                      THEN [i \in 1..Len(res) |-> Context(res[i])]
                      ELSE <<>>,
         reranker_used |-> reranker_used,
         query |-> query]

ErrorResponse(status, error) ==
    [status |-> status, error |-> error, answer |-> <<>>, contexts |-> <<>>,
     reranker_used |-> FALSE, query |-> <<>>]

Outcome(found, error, res, resp) ==
    [baseline_results |-> found, search_error |-> error, results |-> res,
     response |-> resp]

FirstK(res, k) == SubSeq(res, 1, Min(k, Len(res)))

\* what BM25Okapi.get_scores may return for the candidates
Bm25Scores(docs) == [1..Len(docs) -> Bm25Values]

\* ask_api with the reranker built whatever retrieval returned
ask_api_unguarded(req, near, available, encode_ok, query_ok) ==
    IF req.method # "POST"
    THEN {Outcome(<<>>, "none", <<>>, ErrorResponse(405, "Only POST requests are allowed"))}
    ELSE IF req.q = <<>>
    THEN {Outcome(<<>>, "none", <<>>, ErrorResponse(400, "Query parameter q is required"))}
    ELSE
    LET found == search_embeddings(near, available, req.q, SearchK(req), encode_ok, query_ok)
    IN  IF found.error # "none"
        THEN {Outcome(<<>>, found.error, <<>>, ErrorResponse(500, found.error))}
        ELSE IF req.mode = "baseline"
        THEN LET res == FirstK(found.results, req.k)
             IN  {Outcome(found.results, "none", res, ResponseData(req.q, res, FALSE))}
        ELSE LET vscores == [i \in 1..Len(found.results) |-> found.results[i].score]
                 ranked == UNION {Rerank(found.results, req.q, vscores, bm25, DefaultAlpha) :
                                    bm25 \in Bm25Scores(found.results)}
             IN  {Outcome(found.results, "none", FirstK(r, req.k),
                          ResponseData(req.q, FirstK(r, req.k), TRUE)) : r \in ranked}

\* ask_api(request): every outcome the request may have
ask_api(req, near, available, encode_ok, query_ok) ==
    IF req.method # "POST"
    THEN {Outcome(<<>>, "none", <<>>, ErrorResponse(405, "Only POST requests are allowed"))}
    ELSE IF req.q = <<>>
    THEN {Outcome(<<>>, "none", <<>>, ErrorResponse(400, "Query parameter q is required"))}
    ELSE
    LET found == search_embeddings(near, available, req.q, SearchK(req), encode_ok, query_ok)
    IN  IF found.error # "none"
        THEN {Outcome(<<>>, found.error, <<>>, ErrorResponse(500, found.error))}
        ELSE IF req.mode = "baseline"
        THEN LET res == FirstK(found.results, req.k)
             IN  {Outcome(found.results, "none", res, ResponseData(req.q, res, FALSE))}
        ELSE IF found.results # <<>>
        THEN LET vscores == [i \in 1..Len(found.results) |-> found.results[i].score]
                 ranked == UNION {Rerank(found.results, req.q, vscores, bm25, DefaultAlpha) :
                                    bm25 \in Bm25Scores(found.results)}
             IN  {Outcome(found.results, "none", FirstK(r, req.k),
                          ResponseData(req.q, FirstK(r, req.k), TRUE)) : r \in ranked}
        ELSE {Outcome(<<>>, "none", <<>>, ResponseData(req.q, <<>>, FALSE))}

(***************************************************************************)
(* Queries: the store holds up to MaxStored chunks of one document.  The   *)
(* tables of the database are not read by a query.                         *)
(***************************************************************************)
MaxStored == 4        \* most records in the store

Distances == {<<1, 10>>, <<1, 2>>, <<4, 5>>}

\* a short chunk, and one longer than an answer may be that holds no sentence
\* terminator
ShortText == Doc(<<12>>)
LongText == [i \in 1..260 |-> "w"]

\* the texts of n stored chunks: all short, all long, or short and long in turn
ChunkTexts(n) ==
    {[i \in 1..n |-> ShortText], [i \in 1..n |-> LongText],
     [i \in 1..n |-> IF i % 2 = 1 THEN ShortText ELSE LongText]}

StoredRecord(chunk, index) ==
    [id |-> <<1, index>>,
     document |-> clean_chunk_text(chunk),
     metadata |-> [document_id |-> 1, chunk_index |-> index,
                   document_title |-> <<"Guard", "Press">>, document_url |-> "u",
                   original_text |-> chunk]]

\* the records of a store and their distances to a query, nearest first
Neighbours ==
    UNION {{[i \in 1..n |-> [record |-> StoredRecord(c[i], i - 1), distance |-> d[i]]] :
              c \in ChunkTexts(n),
              d \in {e \in [1..n -> Distances] :
                       \A i \in 1..(n - 1) : QLeq(e[i], e[i + 1])}} :
           n \in 0..MaxStored}

Ks == {1, 2, 4}

Requests ==
    [method : {"POST", "GET"}, q : {<<>>} \cup Queries, k : Ks,
     mode : {"baseline", "reranked"}]

QueryInit ==
    /\ nearest \in Neighbours
    /\ collection \in BOOLEAN
    /\ store = {nearest[i].record : i \in 1..Len(nearest)}
    /\ request = NoRequest
    /\ baseline_results = <<>>
    /\ search_error = "none"
    /\ results = <<>>
    /\ response = NoResponse
    /\ qpc = "start"
    /\ sources = <<>>
    /\ pdfs = <<>>
    /\ documents = <<>>
    /\ document_chunks = <<>>
    /\ next_doc_id = 1
    /\ last_op = "none"
    /\ last_error = "none"
    /\ runs = 0
    /\ TextIdle
    /\ RerankIdle
    /\ TruncateIdle

\* one request to /api/ask
AskApi ==
    /\ qpc = "start"
    /\ \E req \in Requests, encode_ok \in BOOLEAN, query_ok \in BOOLEAN :
        \E out \in ask_api(req, nearest, collection, encode_ok, query_ok) :
            /\ request' = req
            /\ baseline_results' = out.baseline_results
            /\ search_error' = out.search_error
            /\ results' = out.results
            /\ response' = out.response
    /\ qpc' = "answered"
    /\ UNCHANGED nearest
    /\ UNCHANGED <<textVars, ingestVars, rerankVars, truncateVars>>

QueryNext == AskApi

Spec == QueryInit /\ [][QueryNext]_vars

(***************************************************************************)
(* Claims about queries                                                    *)
(***************************************************************************)
\* the request reached retrieval
Retrieved == qpc = "answered" /\ request.method = "POST" /\ request.q # <<>>

AllBelowThreshold(res) ==
    \A i \in 1..Len(res) : QLt(res[i].score, confidence_threshold)

\* C6: when the result list is non-empty and every result scores below the
\* confidence threshold 0.3, the response has a null answer and one context
\* per returned result.
C6_NoConfidentAnswer ==
    (Retrieved /\ response.status = 200 /\ Len(results) > 0
        /\ AllBelowThreshold(results))
        => (response.answer = <<>> /\ Len(response.contexts) = Len(results))

\* C13: when retrieval returns an empty candidate list, in either mode, the
\* response has a null answer, no contexts and reranker_used = false;
\* reranker_used is set where the reranker is built, so the reranker is never
\* built over an empty corpus.
C13_EmptyCandidates ==
    (Retrieved /\ search_error = "none" /\ Len(baseline_results) = 0) =>
        /\ response.status = 200
        /\ response.answer = <<>>
        /\ response.contexts = <<>>
        /\ ~response.reranker_used

\* a reranked query that found the store unavailable, though it holds records
C13_Witness ==
    /\ Retrieved
    /\ request.mode = "reranked"
    /\ ~collection
    /\ Len(nearest) > 0
    /\ Len(baseline_results) = 0
    /\ response.status = 200

\* strings joined with single spaces
RECURSIVE SpaceJoin(_)
SpaceJoin(strs) ==
    IF Len(strs) = 0 THEN <<>>
    ELSE IF Len(strs) = 1 THEN strs[1]
    ELSE strs[1] \o <<" ">> \o SpaceJoin(Tail(strs))

\* the places, in ranked order, of the results that score 0.3 or more
ConfidentPlaces(res) == {i \in 1..Len(res) : ~QLt(res[i].score, confidence_threshold)}

\* the m least elements of a set of places, in ascending order
RECURSIVE FirstPlaces(_, _)
FirstPlaces(S, m) ==
    IF S = {} \/ m = 0 THEN <<>>
    ELSE LET least == CHOOSE i \in S : \A j \in S : i <= j
         IN  <<least>> \o FirstPlaces(S \ {least}, m - 1)

\* the draft answer the claim describes
DraftAnswer(res) ==
    LET places == FirstPlaces(ConfidentPlaces(res), 3)
    IN  SpaceJoin([i \in 1..Len(places) |-> Chars(res[places[i]].chunk_text)])

\* C16: the answer is the draft built from the first min(3, n) of the n
\* returned results that score 0.3 or more, in ranked order, their original
\* chunk texts joined with single spaces (cut to 500 characters by
\* truncate_answer); no result under 0.3 contributes, there is no answer when
\* n = 0; and reranker_used is true exactly when the mode is not baseline and
\* retrieval returned a candidate.
C16_DraftAnswer ==
    (Retrieved /\ response.status = 200) =>
        /\ response.answer =
              IF ConfidentPlaces(results) = {} THEN <<>>
              ELSE <<truncate_answer(DraftAnswer(results), MaxAnswerLength)>>
        /\ response.reranker_used
              <=> (request.mode # "baseline" /\ Len(baseline_results) > 0)

\* four results returned by the reranker, all of them confident, and an
\* answer short enough to be the whole draft of the first three
C16_Witness ==
    /\ Retrieved
    /\ response.status = 200
    /\ response.reranker_used
    /\ Len(results) = 4
    /\ Cardinality(ConfidentPlaces(results)) = 4
    /\ Len(response.answer) = 1
    /\ Len(response.answer[1]) < MaxAnswerLength
    /\ response.answer[1] = DraftAnswer(results)

\* C7: search_embeddings never raises: a failed embedding call, a failed
\* store query and an unavailable store all give an empty candidate list, and
\* the query ends with a normal response.
C7_SearchNeverRaises ==
    Retrieved => (search_error = "none" /\ response.status = 200)

\* C9: search_embeddings(query, k) returns at most k candidates, in order of
\* non-increasing score, each score being 1 minus the distance of the store.
C9_RetrieveAtMostK ==
    (Retrieved /\ search_error = "none") =>
        /\ Len(baseline_results) <= SearchK(request)
        /\ NonIncreasing(baseline_results)
        /\ \A i \in 1..Len(baseline_results) :
             baseline_results[i].score = QSub(One, nearest[i].distance)

(***************************************************************************)
(* truncate_answer on its own, beside the queries that call it             *)
(***************************************************************************)
MaxChars == 4         \* longest text handed to truncate_answer
MaxLength == 3        \* largest max_length

Characters == {"w", ".", "!", "?"}

TruncateInit ==
    /\ answer_text \in SeqsUpTo(Characters, MaxChars)
    /\ answer_limit \in 0..MaxLength
    /\ truncated_answer = <<>>
    /\ apc = "start"
    /\ TextIdle
    /\ IngestIdle
    /\ RerankIdle
    /\ QueryIdle

\* truncated_answer = truncate_answer(answer_text, max_length)
TruncateAnswer ==
    /\ apc = "start"
    /\ truncated_answer' = truncate_answer(answer_text, answer_limit)
    /\ apc' = "truncated"
    /\ UNCHANGED <<answer_text, answer_limit>>
    /\ UNCHANGED <<textVars, ingestVars, rerankVars, queryVars>>

AnswerInit == TruncateInit \/ QueryInit

AnswerNext == TruncateAnswer \/ AskApi

SpecAnswer == AnswerInit /\ [][AnswerNext]_vars

(***************************************************************************)
(* Claims about truncate_answer                                            *)
(***************************************************************************)
Truncated == apc = "truncated"

\* C12: truncate_answer(text, max_length) returns at most max_length + 3
\* characters, and returns text unchanged when text has at most max_length
\* characters; the answer of a query response has at most 503 characters.
C12_TruncateBounded ==
    /\ Truncated =>
        /\ Len(truncated_answer) <= answer_limit + 3
        /\ Len(answer_text) <= answer_limit => truncated_answer = answer_text
    /\ (qpc = "answered" /\ Len(response.answer) = 1) =>
        Len(response.answer[1]) <= MaxAnswerLength + 3

\* a text cut at max_length characters: the result is as long as it may be
C12_Witness ==
    /\ Truncated
    /\ answer_limit > 0
    /\ Len(answer_text) > answer_limit
    /\ Len(truncated_answer) = answer_limit + 3

IsTerminator(c) == c \in {".", "!", "?"}

\* the places of the sentence terminators among the first n characters
TerminatorsIn(txt, n) == {i \in 1..Min(n, Len(txt)) : IsTerminator(txt[i])}

LastOf(S) == CHOOSE i \in S : \A j \in S : j <= i

\* C15: for a text longer than max_length, when the first max_length
\* characters hold a sentence terminator, at whatever place, the first one
\* included, the result is the prefix up to the last such terminator followed
\* by ".."; when they hold none it is the first max_length characters followed
\* by "...".
C15_CutAtLastTerminator ==
    (Truncated /\ Len(answer_text) > answer_limit) =>
        LET ends == TerminatorsIn(answer_text, answer_limit)
        IN  IF ends # {}
            THEN truncated_answer = SubSeq(answer_text, 1, LastOf(ends)) \o <<".", ".">>
            ELSE truncated_answer = SubSeq(answer_text, 1, answer_limit) \o <<".", ".", ".">>

====
